---- MODULE Spec2Model ----
(***************************************************************************)
(* Model of two parts of the repository:                                   *)
(*   - the Vulkan render-graph node VKCopyBufferToImageNode                *)
(*     (vk_copy_buffer_to_image_node.hh);                                  *)
(*   - the grease pencil stroke-editing operators (namespace               *)
(*     blender::ed::greasepencil in ply_export.cc).                        *)
(* Each part has its own specification; the variables of the other parts   *)
(* stay at their initial value.                                            *)
(***************************************************************************)
EXTENDS Integers, Sequences, FiniteSets, TLC

VARIABLES
  resources,       \* VKResourceStateTracker: the stamp of every buffer and image
  node_links,      \* VKRenderGraphNodeLinks: [inputs, outputs]
  node,            \* VKRenderGraphNode::copy_buffer_to_image (or NoData)
  command_buffer,  \* the commands recorded through VKCommandBufferInterface
  node_create_info,\* the create_info last handed to set_node_data (history)
  drawings,        \* GreasePencil: the drawings at the current frame, one per layer
  layers,          \* GreasePencil: per layer, whether it is editable and its frames
  active_layer,    \* the index of the active layer, 0 when there is none
  cfra,            \* scene->r.cfra, the current frame of the scene
  steps,           \* number of operations executed
  last             \* the last operation executed, its inputs and the state before it

vars ==
  <<resources, node_links, node, command_buffer, node_create_info,
    drawings, layers, active_layer, cfra, steps, last>>

vk_vars == <<resources, node_links, node, command_buffer, node_create_info>>

frame_vars == <<layers, active_layer, cfra>>

gp_vars == <<drawings, layers, active_layer, cfra>>

\* The layers of a data-block the specification does not use.
FramesIdle == layers = <<>> /\ active_layer = 0 /\ cfra = 1

NoOp == [op |-> "none"]

(***************************************************************************)
(* Part 1: VKCopyBufferToImageNode                                         *)
(***************************************************************************)

\* Bounds of the render-graph part.
MaxSteps == 3

Buffers == {"buf1", "buf2"}
Images == {"img1", "img2"}
AspectMasks == {"COLOR", "DEPTH"}

\* A node whose data was never set (zero-initialized VKCopyBufferToImageData).
NoData ==
  [src_buffer |-> "null", dst_image |-> "null",
   region |-> [imageSubresource |-> [aspectMask |-> "NONE"], bufferOffset |-> 0]]

\* VkBufferImageCopy, reduced to the field the node reads plus one payload field.
Regions == [imageSubresource : [aspectMask : AspectMasks], bufferOffset : {0}]

\* VKCopyBufferToImageData (CreateInfo and Data are the same type).
CreateInfos == [src_buffer : Buffers, dst_image : Images, region : Regions]

\* VKResourceStateTracker::get_buffer: the resource with its current stamp.
get_buffer(res, handle) ==
  [handle |-> handle, stamp |-> res.buffers[handle]]

\* VKResourceStateTracker::get_image_and_increase_stamp: the resource with its
\* stamp, and the tracker with that image's stamp increased by one.
get_image_and_increase_stamp(res, handle) ==
  [result |-> [handle |-> handle, stamp |-> res.images[handle]],
   resources |-> [res EXCEPT !.images[handle] = @ + 1]]

\* build_links with the roles of the two resources swapped in the tracker calls:
\* the stamp of the buffer is increased instead of the stamp of the image.
build_links_stamp_src(res, links, create_info) ==
  LET src_resource == get_buffer(res, create_info.src_buffer)
      dst_resource == [handle |-> create_info.dst_image,
                       stamp |-> res.images[create_info.dst_image]]
  IN [resources |-> [res EXCEPT !.buffers[create_info.src_buffer] = @ + 1],
      node_links |->
        [inputs |-> Append(links.inputs,
                           [resource |-> src_resource,
                            vk_access_flags |-> "TRANSFER_READ",
                            vk_image_layout |-> "UNDEFINED"]),
         outputs |-> Append(links.outputs,
                            [resource |-> dst_resource,
                             vk_access_flags |-> "TRANSFER_WRITE",
                             vk_image_layout |-> "TRANSFER_DST_OPTIMAL",
                             vk_image_aspect |->
                               create_info.region.imageSubresource.aspectMask])]]

\* VKCopyBufferToImageNode::build_links
build_links(res, links, create_info) ==
  LET src_resource == get_buffer(res, create_info.src_buffer)
      dst == get_image_and_increase_stamp(res, create_info.dst_image)
      dst_resource == dst.result
  IN [resources |-> dst.resources,
      node_links |->
        [inputs |-> Append(links.inputs,
                           [resource |-> src_resource,
                            vk_access_flags |-> "TRANSFER_READ",
                            vk_image_layout |-> "UNDEFINED"]),
         outputs |-> Append(links.outputs,
                            [resource |-> dst_resource,
                             vk_access_flags |-> "TRANSFER_WRITE",
                             vk_image_layout |-> "TRANSFER_DST_OPTIMAL",
                             vk_image_aspect |->
                               create_info.region.imageSubresource.aspectMask])]]

\* set_node_data that stores the handles but not the region.
set_node_data_no_region(create_info) ==
  [NoData EXCEPT !.src_buffer = create_info.src_buffer,
                 !.dst_image = create_info.dst_image]

\* VKCopyBufferToImageNode::set_node_data: node.copy_buffer_to_image = create_info
set_node_data(create_info) ==
  create_info

\* VKCopyBufferToImageNode::build_commands: the command appended to the buffer.
build_commands(cmds, data) ==
  Append(cmds,
         [command |-> "copy_buffer_to_image",
          src_buffer |-> data.src_buffer,
          dst_image |-> data.dst_image,
          dst_image_layout |-> "TRANSFER_DST_OPTIMAL",
          region_count |-> 1,
          regions |-> <<data.region>>])

VKIdle ==
  /\ resources = [buffers |-> [b \in Buffers |-> 0], images |-> [i \in Images |-> 0]]
  /\ node_links = [inputs |-> <<>>, outputs |-> <<>>]
  /\ node = NoData
  /\ command_buffer = <<>>
  /\ node_create_info = NoData

InitVK ==
  /\ VKIdle
  /\ drawings = <<>>
  /\ FramesIdle
  /\ steps = 0
  /\ last = NoOp

SetNodeData ==
  \E create_info \in CreateInfos :
    /\ steps < MaxSteps
    /\ node' = set_node_data(create_info)
    /\ node_create_info' = create_info
    /\ last' = [op |-> "set_node_data", create_info |-> create_info]
    /\ steps' = steps + 1
    /\ UNCHANGED <<resources, node_links, command_buffer, gp_vars>>

BuildLinks ==
  \E create_info \in CreateInfos :
    /\ steps < MaxSteps
    /\ LET r == build_links(resources, node_links, create_info)
       IN /\ resources' = r.resources
          /\ node_links' = r.node_links
    /\ last' = [op |-> "build_links", create_info |-> create_info,
                resources |-> resources, node_links |-> node_links]
    /\ steps' = steps + 1
    /\ UNCHANGED <<node, command_buffer, node_create_info, gp_vars>>

\* build_commands is called on a node whose data was stored by set_node_data.
BuildCommands ==
  /\ steps < MaxSteps
  /\ node # NoData
  /\ command_buffer' = build_commands(command_buffer, node)
  /\ last' = [op |-> "build_commands", data |-> node,
              command_buffer |-> command_buffer]
  /\ steps' = steps + 1
  /\ UNCHANGED <<resources, node_links, node, node_create_info, gp_vars>>

NextVK == SetNodeData \/ BuildLinks \/ BuildCommands

SpecVK == InitVK /\ [][NextVK]_vars

IsPrefix(s, t) == Len(s) <= Len(t) /\ SubSeq(t, 1, Len(s)) = s

\* C1: build_links appends exactly one input link (the source buffer, access
\* TRANSFER_READ, layout UNDEFINED) and exactly one output link (the destination
\* image, access TRANSFER_WRITE, layout TRANSFER_DST_OPTIMAL, the aspect mask of
\* create_info.region.imageSubresource), keeps the links that were already in
\* node_links, increases the stamp of the destination image by exactly one and
\* changes no other stamp, in particular not the stamp of the source buffer.
C1_BuildLinks ==
  last.op = "build_links" =>
    LET ci == last.create_info
        new_in == node_links.inputs[Len(node_links.inputs)]
        new_out == node_links.outputs[Len(node_links.outputs)]
    IN /\ Len(node_links.inputs) = Len(last.node_links.inputs) + 1
       /\ Len(node_links.outputs) = Len(last.node_links.outputs) + 1
       /\ IsPrefix(last.node_links.inputs, node_links.inputs)
       /\ IsPrefix(last.node_links.outputs, node_links.outputs)
       /\ new_in.resource.handle = ci.src_buffer
       /\ new_in.vk_access_flags = "TRANSFER_READ"
       /\ new_in.vk_image_layout = "UNDEFINED"
       /\ new_out.resource.handle = ci.dst_image
       /\ new_out.vk_access_flags = "TRANSFER_WRITE"
       /\ new_out.vk_image_layout = "TRANSFER_DST_OPTIMAL"
       /\ new_out.vk_image_aspect = ci.region.imageSubresource.aspectMask
       /\ resources.images[ci.dst_image] = last.resources.images[ci.dst_image] + 1
       /\ \A i \in Images \ {ci.dst_image} :
            resources.images[i] = last.resources.images[i]
       /\ \A b \in Buffers : resources.buffers[b] = last.resources.buffers[b]

\* build_links ran on node_links that already held links of an earlier call for
\* the same destination image.
C1_Witness ==
  /\ last.op = "build_links"
  /\ Len(last.node_links.outputs) >= 1
  /\ last.node_links.outputs[1].resource.handle = last.create_info.dst_image
  /\ resources.images[last.create_info.dst_image] = 2

\* C2: build_commands on the data stored by set_node_data records exactly one
\* copy_buffer_to_image command, with the src_buffer, dst_image and region of the
\* create_info, region count 1 and image layout TRANSFER_DST_OPTIMAL, which is the
\* layout of every output link build_links declared for that destination image.
C2_BuildCommands ==
  last.op = "build_commands" =>
    LET cmd == command_buffer[Len(command_buffer)]
    IN /\ Len(command_buffer) = Len(last.command_buffer) + 1
       /\ IsPrefix(last.command_buffer, command_buffer)
       /\ cmd.command = "copy_buffer_to_image"
       /\ cmd.src_buffer = node_create_info.src_buffer
       /\ cmd.dst_image = node_create_info.dst_image
       /\ cmd.region_count = 1
       /\ Len(cmd.regions) = cmd.region_count
       /\ cmd.regions[1] = node_create_info.region
       /\ cmd.dst_image_layout = "TRANSFER_DST_OPTIMAL"
       /\ \A k \in 1..Len(node_links.outputs) :
            node_links.outputs[k].resource.handle = cmd.dst_image =>
              node_links.outputs[k].vk_image_layout = cmd.dst_image_layout

\* set_node_data, build_links and build_commands ran for the same create_info.
C2_Witness ==
  /\ last.op = "build_commands"
  /\ Len(command_buffer) = 1
  /\ \E k \in 1..Len(node_links.outputs) :
       /\ node_links.outputs[k].resource.handle = command_buffer[1].dst_image
       /\ node_links.inputs[k].resource.handle = command_buffer[1].src_buffer

(***************************************************************************)
(* Part 2: grease pencil operators.  Curves geometry.                      *)
(*                                                                         *)
(* A CurvesGeometry is a record                                            *)
(*   counts     the number of points of every curve (points_by_curve),     *)
(*   ids        per point, the identity of the point (its attributes),     *)
(*   selection  per point, the ".selection" attribute,                     *)
(*   cyclic     per curve, the value curves.cyclic() reads,                *)
(*   has_cyclic whether the "cyclic" attribute is stored,                  *)
(*   locked     per curve, whether the stroke's material is locked.        *)
(* Points and curves are numbered from 1 here (from 0 in the code).        *)
(***************************************************************************)

\* Bound: the number of points of the drawing the dissolve operator runs on.
MaxPoints == 4

RECURSIVE SumSeq(_)
SumSeq(s) == IF s = <<>> THEN 0 ELSE s[1] + SumSeq(Tail(s))

RECURSIVE Concat(_)
Concat(ss) == IF ss = <<>> THEN <<>> ELSE ss[1] \o Concat(Tail(ss))

Contains(span, value) == \E i \in 1..Len(span) : span[i] = value

\* IndexRange: start and size; first(), last() and shift() as in BLI_index_range.hh.
IndexRange(start, size) == [start |-> start, size |-> size]
RangeFirst(r) == r.start
RangeLast(r) == r.start + r.size - 1
RangeShift(r, n) == [r EXCEPT !.start = @ + n]
InRange(i, r) == r.start <= i /\ i <= RangeLast(r)

\* OffsetIndices: curves.points_by_curve()[curve_i]
points_by_curve(curves, curve_i) ==
  IndexRange(1 + SumSeq(SubSeq(curves.counts, 1, curve_i - 1)), curves.counts[curve_i])

points_num(curves) == Len(curves.ids)
curves_num(curves) == Len(curves.counts)
curves_range(curves) == 1..Len(curves.counts)

\* Span::slice(range)
Slice(span, r) == SubSeq(span, RangeFirst(r), RangeLast(r))

\* The curve a point belongs to.
curve_of_point(curves, p) ==
  CHOOSE c \in curves_range(curves) : InRange(p, points_by_curve(curves, c))

RECURSIVE find_all_ranges_from(_, _, _, _, _)
find_all_ranges_from(span, value, i, start, acc) ==
  IF i > Len(span)
    THEN IF start # 0 THEN Append(acc, IndexRange(start, i - start)) ELSE acc
    ELSE IF span[i] = value
      THEN find_all_ranges_from(span, value, i + 1, IF start = 0 THEN i ELSE start, acc)
      ELSE find_all_ranges_from(span, value, i + 1, 0,
             IF start # 0 THEN Append(acc, IndexRange(start, i - start)) ELSE acc)

\* array_utils::find_all_ranges: the maximal runs of `value` in span, in order.
find_all_ranges(span, value) == find_all_ranges_from(span, value, 1, 0, <<>>)

\* array_utils::invert_booleans
invert_booleans(span) == [i \in 1..Len(span) |-> ~span[i]]

\* IndexMask::from_bools
from_bools(span) == {i \in 1..Len(span) : span[i]}

RECURSIVE CountSeqs(_)
\* The sequences of curve sizes (each >= 1) with at most n points in total.
CountSeqs(n) ==
  {<<>>} \cup UNION {{<<k>> \o s : s \in CountSeqs(n - k)} : k \in 1..n}

\* The curves geometries with at most n points, the material lock of a stroke
\* drawn from lockedSet and its cyclic flag from cyclicSet.
CurvesGeometries(n, lockedSet, cyclicSet) ==
  UNION {
    {[counts |-> cs,
      ids |-> [i \in 1..SumSeq(cs) |-> i],
      selection |-> sel,
      cyclic |-> cyc,
      has_cyclic |-> has,
      locked |-> lck] :
        sel \in [1..SumSeq(cs) -> BOOLEAN],
        cyc \in [1..Len(cs) -> cyclicSet],
        lck \in [1..Len(cs) -> lockedSet],
        has \in cyclicSet} : cs \in CountSeqs(n)}

\* The "cyclic" attribute is stored whenever a curve is cyclic.
WellFormed(curves) == Contains(curves.cyclic, TRUE) => curves.has_cyclic

\* The ids of the points of every curve, one sequence per curve.
CurvePoints(curves) ==
  [c \in curves_range(curves) |-> Slice(curves.ids, points_by_curve(curves, c))]

\* retrieve_editable_drawings: the drawings of the editable layers.
retrieve_editable_drawings(ds) == {d \in 1..Len(ds) : ds[d].layer_editable}

\* retrieve_editable_strokes: the strokes whose material is not locked.
retrieve_editable_strokes(curves) ==
  {c \in curves_range(curves) : ~curves.locked[c]}

\* retrieve_editable_and_selected_points
retrieve_editable_and_selected_points(curves) ==
  {p \in 1..points_num(curves) :
     curves.selection[p] /\ ~curves.locked[curve_of_point(curves, p)]}

\* retrieve_editable_and_selected_strokes: a stroke is selected when one of its
\* points is.
retrieve_editable_and_selected_strokes(curves) ==
  {c \in retrieve_editable_strokes(curves) :
     Contains(Slice(curves.selection, points_by_curve(curves, c)), TRUE)}

RECURSIVE SelectIdx(_, _, _)
\* The elements of s at the positions i..Len(s) that are in the set keep.
SelectIdx(s, keep, i) ==
  IF i > Len(s) THEN <<>>
  ELSE (IF i \in keep THEN <<s[i]>> ELSE <<>>) \o SelectIdx(s, keep, i + 1)

\* CurvesGeometry::remove_points: the points of the mask are removed, the other
\* points stay in order in their curve, a curve left without points is removed.
remove_points(curves, mask) ==
  LET kept == (1..points_num(curves)) \ mask
      left(c) == Cardinality({p \in kept : InRange(p, points_by_curve(curves, c))})
      stays == {c \in curves_range(curves) : left(c) > 0}
      idx == SelectIdx([c \in curves_range(curves) |-> c], stays, 1)
  IN [counts |-> [k \in 1..Len(idx) |-> left(idx[k])],
      ids |-> SelectIdx(curves.ids, kept, 1),
      selection |-> SelectIdx(curves.selection, kept, 1),
      cyclic |-> SelectIdx(curves.cyclic, stays, 1),
      has_cyclic |-> curves.has_cyclic,
      locked |-> SelectIdx(curves.locked, stays, 1)]

\* The end of an operator that notifies whether or not a drawing changed.
notifiers_always(changed) == 1

\* The end of the stroke operators: if (changed) { DEG_id_tag_update(...);
\* WM_event_add_notifier(...); }, as the number of notifications sent.
notifiers_if_changed(changed) == IF changed THEN 1 ELSE 0

(***************************************************************************)
(* Dissolve operator                                                       *)
(***************************************************************************)

DissolveModes == {"POINTS", "BETWEEN", "UNSELECT"}

\* selection.materialize(mask, points_to_dissolve) on an array filled with false
materialize(curves, mask) ==
  [p \in 1..points_num(curves) |-> p \in mask /\ curves.selection[p]]

\* points_to_keep_of_curve that keeps the leading run of unselected points
\* only: the fill of the last range is missing.
points_to_keep_first_range_only(curves, points_to_dissolve, curve_i, mode) ==
  LET points == points_by_curve(curves, curve_i)
      curve_selection == Slice(points_to_dissolve, points)
      deselection_ranges == find_all_ranges(curve_selection, FALSE)
      first_range == RangeShift(deselection_ranges[1], RangeFirst(points) - 1)
  IN IF ~Contains(curve_selection, TRUE)
       THEN [j \in 1..points.size |-> TRUE]
     ELSE IF mode # "BETWEEN"
       THEN curve_selection
     ELSE IF Len(deselection_ranges) = 0
       THEN curve_selection
     ELSE [j \in 1..points.size |->
             LET p == RangeFirst(points) + j - 1
             IN \/ curve_selection[j]
                \/ RangeFirst(first_range) = RangeFirst(points) /\ InRange(p, first_range)]

\* points_to_keep_of_curve without the early fill for the curves that have no
\* selected point.
points_to_keep_no_unselected_fill(curves, points_to_dissolve, curve_i, mode) ==
  LET points == points_by_curve(curves, curve_i)
      curve_selection == Slice(points_to_dissolve, points)
      deselection_ranges == find_all_ranges(curve_selection, FALSE)
      first_range == RangeShift(deselection_ranges[1], RangeFirst(points) - 1)
      last_range == RangeShift(deselection_ranges[Len(deselection_ranges)],
                               RangeFirst(points) - 1)
  IN IF mode # "BETWEEN"
       THEN curve_selection
     ELSE IF Len(deselection_ranges) = 0
       THEN curve_selection
     ELSE [j \in 1..points.size |->
             LET p == RangeFirst(points) + j - 1
             IN \/ curve_selection[j]
                \/ RangeFirst(first_range) = RangeFirst(points) /\ InRange(p, first_range)
                \/ RangeLast(last_range) = RangeLast(points) /\ InRange(p, last_range)]

\* The points to keep of one curve, for the modes BETWEEN and UNSELECT
\* (the body of the loop over the curves in get_points_to_dissolve).
points_to_keep_of_curve(curves, points_to_dissolve, curve_i, mode) ==
  LET points == points_by_curve(curves, curve_i)
      curve_selection == Slice(points_to_dissolve, points)
      deselection_ranges == find_all_ranges(curve_selection, FALSE)
      \* the ranges are relative to the curve's first point
      first_range == RangeShift(deselection_ranges[1], RangeFirst(points) - 1)
      last_range == RangeShift(deselection_ranges[Len(deselection_ranges)],
                               RangeFirst(points) - 1)
  IN IF ~Contains(curve_selection, TRUE)
       THEN [j \in 1..points.size |-> TRUE]
     ELSE IF mode # "BETWEEN"
       THEN curve_selection
     ELSE IF Len(deselection_ranges) = 0
       THEN curve_selection
     ELSE [j \in 1..points.size |->
             LET p == RangeFirst(points) + j - 1
             IN \/ curve_selection[j]
                \/ RangeFirst(first_range) = RangeFirst(points) /\ InRange(p, first_range)
                \/ RangeLast(last_range) = RangeLast(points) /\ InRange(p, last_range)]

\* get_points_to_dissolve in which the mode POINTS reads the selection attribute
\* of all points instead of materializing it over the mask.
get_points_to_dissolve_no_mask(curves, mask, mode) ==
  LET points_to_dissolve == curves.selection
  IN IF mode = "POINTS" THEN points_to_dissolve
     ELSE invert_booleans(Concat(
            [c \in curves_range(curves) |->
               points_to_keep_of_curve(curves, materialize(curves, mask), c, mode)]))

\* get_points_to_dissolve
get_points_to_dissolve(curves, mask, mode) ==
  LET points_to_dissolve == materialize(curves, mask)
  IN IF mode = "POINTS" THEN points_to_dissolve
     ELSE invert_booleans(Concat(
            [c \in curves_range(curves) |->
               points_to_keep_of_curve(curves, points_to_dissolve, c, mode)]))

\* The body of the parallel_for_each of grease_pencil_dissolve_exec for one
\* drawing: the new geometry, whether the drawing changed, and the array
\* get_points_to_dissolve returned when it was called.
dissolve_drawing(curves, mode) ==
  LET points == retrieve_editable_and_selected_points(curves)
      points_to_dissolve == get_points_to_dissolve(curves, points, mode)
  IN IF points_num(curves) = 0 \/ points = {}
       THEN [curves |-> curves, changed |-> FALSE,
             called |-> FALSE, points_to_dissolve |-> <<>>]
     ELSE IF Contains(points_to_dissolve, TRUE)
       THEN [curves |-> remove_points(curves, from_bools(points_to_dissolve)),
             changed |-> TRUE,
             called |-> TRUE, points_to_dissolve |-> points_to_dissolve]
     ELSE [curves |-> curves, changed |-> FALSE,
           called |-> TRUE, points_to_dissolve |-> points_to_dissolve]

\* A drawing of a layer: whether the layer is editable, and its strokes.
Drawing(editable, curves) == [layer_editable |-> editable, curves |-> curves]

InitDissolve ==
  /\ VKIdle
  /\ \E c1 \in CurvesGeometries(MaxPoints, BOOLEAN, {FALSE}), e1 \in BOOLEAN :
       drawings = <<Drawing(e1, c1)>>
  /\ FramesIdle
  /\ steps = 0
  /\ last = NoOp

\* grease_pencil_dissolve_exec
DissolveExec ==
  \E mode \in DissolveModes :
    /\ steps = 0
    /\ LET editable == retrieve_editable_drawings(drawings)
           r == [d \in 1..Len(drawings) |-> dissolve_drawing(drawings[d].curves, mode)]
           changed == \E d \in editable : r[d].changed
       IN /\ drawings' = [d \in 1..Len(drawings) |->
                            IF d \in editable
                              THEN [drawings[d] EXCEPT !.curves = r[d].curves]
                              ELSE drawings[d]]
          /\ last' = [op |-> "dissolve", mode |-> mode, drawings |-> drawings,
                      calls |-> [d \in 1..Len(drawings) |->
                                   IF d \in editable
                                     THEN [called |-> r[d].called,
                                           points_to_dissolve |-> r[d].points_to_dissolve]
                                     ELSE [called |-> FALSE, points_to_dissolve |-> <<>>]],
                      iterated |-> TRUE,
                      notifiers |-> notifiers_if_changed(changed),
                      result |-> "OPERATOR_FINISHED"]
    /\ steps' = steps + 1
    /\ UNCHANGED <<vk_vars, frame_vars>>

NextDissolve == DissolveExec

SpecDissolve == InitDissolve /\ [][NextDissolve]_vars

\* The points the dissolve operator treats as selected in a geometry: the
\* editable selected points (the mask handed to get_points_to_dissolve).
DissolveSelected(curves, p) ==
  curves.selection[p] /\ ~curves.locked[curve_of_point(curves, p)]

CurveHasSelected(curves, c) ==
  \E p \in 1..points_num(curves) :
    InRange(p, points_by_curve(curves, c)) /\ DissolveSelected(curves, p)

RECURSIVE Without(_, _)
\* The sequence s without the elements of the set gone.
Without(s, gone) ==
  IF s = <<>> THEN <<>>
  ELSE (IF s[1] \in gone THEN <<>> ELSE <<s[1]>>) \o Without(Tail(s), gone)

RECURSIVE NonEmpty(_)
NonEmpty(ss) ==
  IF ss = <<>> THEN <<>>
  ELSE (IF ss[1] = <<>> THEN <<>> ELSE <<ss[1]>>) \o NonEmpty(Tail(ss))

\* C4: dissolve in POINTS mode removes from every editable drawing exactly its
\* editable selected points and splits no stroke: the drawing has at most as many
\* strokes as before, and its strokes are the strokes of before, each with its
\* remaining points in their original order (a stroke left without points is
\* gone); the drawings of layers that are not editable are unchanged.
C4_DissolvePoints ==
  (last.op = "dissolve" /\ last.mode = "POINTS") =>
    \A d \in 1..Len(drawings) :
      LET b == last.drawings[d].curves
          a == drawings[d].curves
          removed == {b.ids[p] : p \in {q \in 1..points_num(b) : DissolveSelected(b, q)}}
          before == CurvePoints(b)
      IN IF last.drawings[d].layer_editable
           THEN /\ {a.ids[p] : p \in 1..points_num(a)} =
                     {b.ids[p] : p \in 1..points_num(b)} \ removed
                /\ curves_num(a) <= curves_num(b)
                /\ CurvePoints(a) =
                     NonEmpty([c \in 1..Len(before) |-> Without(before[c], removed)])
           ELSE a = b

\* POINTS mode removed an inner point of a stroke, and the stroke is still one
\* stroke.
C4_Witness ==
  /\ last.op = "dissolve" /\ last.mode = "POINTS"
  /\ last.drawings[1].layer_editable
  /\ last.drawings[1].curves.counts = <<3>>
  /\ last.drawings[1].curves.selection = <<FALSE, TRUE, FALSE>>
  /\ CurvePoints(drawings[1].curves) = <<(<<1, 3>>)>>

\* C5: get_points_to_dissolve in BETWEEN mode marks, in every curve that has a
\* selected point, exactly the unselected points that lie after the first and
\* before the last selected point of the curve (selected: in the mask and
\* selected, which is what the function materializes as the selection of the
\* curve).  So neither the leading run of unselected points, nor the trailing
\* run, nor a selected point is marked.
C5_DissolveBetween ==
  (last.op = "dissolve" /\ last.mode = "BETWEEN") =>
    \A d \in 1..Len(drawings) :
      last.calls[d].called =>
        LET b == last.drawings[d].curves
            marks == last.calls[d].points_to_dissolve
        IN /\ Len(marks) = points_num(b)
           /\ \A c \in curves_range(b) :
                CurveHasSelected(b, c) =>
                  \A p \in 1..points_num(b) :
                    InRange(p, points_by_curve(b, c)) =>
                      (marks[p] <=>
                         /\ ~DissolveSelected(b, p)
                         /\ \E q \in 1..(p - 1) :
                              /\ InRange(q, points_by_curve(b, c))
                              /\ DissolveSelected(b, q)
                         /\ \E q \in (p + 1)..points_num(b) :
                              /\ InRange(q, points_by_curve(b, c))
                              /\ DissolveSelected(b, q))

\* BETWEEN ran on a stroke with a leading unselected point and an unselected
\* point between two selected ones: only the latter is marked and removed.
C5_Witness ==
  /\ last.op = "dissolve" /\ last.mode = "BETWEEN"
  /\ last.calls[1].called
  /\ last.drawings[1].curves.counts = <<4>>
  /\ last.drawings[1].curves.selection = <<FALSE, TRUE, FALSE, TRUE>>
  /\ last.calls[1].points_to_dissolve = <<FALSE, FALSE, TRUE, FALSE>>
  /\ CurvePoints(drawings[1].curves) = <<(<<1, 2, 4>>)>>

\* C6: get_points_to_dissolve in UNSELECT mode marks, in every curve that has a
\* selected point, all unselected points and no selected point; in the modes
\* BETWEEN and UNSELECT no point of a curve without selected point is marked, and
\* such a curve is in the drawing after the operator as it was before.
C6_DissolveUnselect ==
  (last.op = "dissolve" /\ last.mode \in {"BETWEEN", "UNSELECT"}) =>
    \A d \in 1..Len(drawings) :
      LET b == last.drawings[d].curves
          a == drawings[d].curves
          marks == last.calls[d].points_to_dissolve
      IN /\ last.calls[d].called =>
              \A c \in curves_range(b) :
                \A p \in 1..points_num(b) :
                  InRange(p, points_by_curve(b, c)) =>
                    IF CurveHasSelected(b, c)
                      THEN last.mode = "UNSELECT" =>
                             (marks[p] <=> ~DissolveSelected(b, p))
                      ELSE ~marks[p]
         /\ \A c \in curves_range(b) :
              ~CurveHasSelected(b, c) =>
                \E c2 \in curves_range(a) :
                  /\ CurvePoints(a)[c2] = CurvePoints(b)[c]
                  /\ a.locked[c2] = b.locked[c]
                  /\ a.cyclic[c2] = b.cyclic[c]

\* UNSELECT ran on a drawing with a stroke that has selected and unselected
\* points and a stroke without selected point.
C6_Witness ==
  /\ last.op = "dissolve" /\ last.mode = "UNSELECT"
  /\ last.calls[1].called
  /\ last.drawings[1].curves.counts = <<2, 2>>
  /\ last.drawings[1].curves.locked = <<FALSE, FALSE>>
  /\ last.drawings[1].curves.selection = <<FALSE, TRUE, FALSE, FALSE>>
  /\ last.calls[1].points_to_dissolve = <<TRUE, FALSE, FALSE, FALSE>>
  /\ CurvePoints(drawings[1].curves) = <<(<<2>>), <<3, 4>>>>

(***************************************************************************)
(* Reorder operator: get_reordered_indices.  Indices count from 0 as in the *)
(* code; an Array<int> of size n is a function on 0..n-1.                  *)
(***************************************************************************)

\* Bound: the size of the universe (the number of curves of the drawing).
MaxCurves == 5

ReorderDirections == {"TOP", "UP", "DOWN", "BOTTOM"}

RECURSIVE to_indices(_)
\* IndexMask::to_indices: the indices of the mask in ascending order.
to_indices(mask) ==
  IF mask = {} THEN <<>>
  ELSE LET lo == CHOOSE x \in mask : \A y \in mask : x <= y
       IN <<lo>> \o to_indices(mask \ {lo})

\* IndexMask::complement(universe)
complement(mask, universe) ==
  {i \in RangeFirst(universe)..RangeLast(universe) : i \notin mask}

\* std::swap(indices[a], indices[b])
swap(indices, a, b) == [indices EXCEPT ![a] = indices[b], ![b] = indices[a]]

\* array_utils::fill_index_range
fill_index_range(size) == [i \in 0..(size - 1) |-> i]

\* The TOP/BOTTOM branch with the test on the direction inverted.
reorder_top_bottom_inverted(universe, selected, direction) ==
  LET unselected == complement(selected, universe)
      A == IF direction = "TOP" THEN selected ELSE unselected
      B == IF direction = "TOP" THEN unselected ELSE selected
      front == to_indices(A)
      back == to_indices(B)
  IN [i \in 0..(universe.size - 1) |->
        IF i >= universe.size - Len(back)
          THEN back[i - (universe.size - Len(back)) + 1]
          ELSE front[i + 1]]

\* get_reordered_indices, the branch of TOP and BOTTOM: A is written to the front
\* of the array and B to its back.
reorder_top_bottom(universe, selected, direction) ==
  LET unselected == complement(selected, universe)
      A == IF direction = "BOTTOM" THEN selected ELSE unselected
      B == IF direction = "BOTTOM" THEN unselected ELSE selected
      front == to_indices(A)
      back == to_indices(B)
  IN [i \in 0..(universe.size - 1) |->
        IF i >= universe.size - Len(back)
          THEN back[i - (universe.size - Len(back)) + 1]
          ELSE front[i + 1]]

RECURSIVE reorder_down_first_only(_, _, _)
\* The DOWN loop that tests for the first index instead of the position in the
\* mask: only index 0 stays.
reorder_down_first_only(indices, selected_indices, pos) ==
  IF pos >= Len(selected_indices) THEN indices
  ELSE LET curve_i == selected_indices[pos + 1]
       IN reorder_down_first_only(
            IF curve_i # 0 THEN swap(indices, curve_i, curve_i - 1) ELSE indices,
            selected_indices, pos + 1)

RECURSIVE reorder_down(_, _, _)
\* get_reordered_indices, the branch of DOWN: selected.foreach_index_optimized
\* from the position pos of the mask on.
reorder_down(indices, selected_indices, pos) ==
  IF pos >= Len(selected_indices) THEN indices
  ELSE LET curve_i == selected_indices[pos + 1]
       IN reorder_down(
            IF curve_i # pos THEN swap(indices, curve_i, curve_i - 1) ELSE indices,
            selected_indices, pos + 1)

RECURSIVE reorder_up(_, _, _, _)
\* get_reordered_indices, the branch of UP: the loop over selected_indices from
\* the iteration i on, backwards from the largest index.
reorder_up(indices, universe, selected_indices, i) ==
  IF i >= Len(selected_indices) THEN indices
  ELSE LET pos == (Len(selected_indices) - 1) - i
           curve_i == selected_indices[pos + 1]
       IN reorder_up(
            IF curve_i # RangeLast(universe) - i
              THEN swap(indices, curve_i, curve_i + 1) ELSE indices,
            universe, selected_indices, i + 1)

\* get_reordered_indices
get_reordered_indices(universe, selected, direction) ==
  IF direction \in {"TOP", "BOTTOM"}
    THEN reorder_top_bottom(universe, selected, direction)
  ELSE IF direction = "DOWN"
    THEN reorder_down(fill_index_range(universe.size), to_indices(selected), 0)
  ELSE reorder_up(fill_index_range(universe.size), universe, to_indices(selected), 0)

\* The inputs of get_reordered_indices: a universe 0..n-1 and a selection in it.
InitReorder ==
  /\ VKIdle
  /\ drawings = <<>>
  /\ FramesIdle
  /\ steps = 0
  /\ \E n \in 0..MaxCurves : \E selected \in SUBSET (0..(n - 1)) :
       last = [op |-> "input", universe |-> IndexRange(0, n), selected |-> selected]

GetReorderedIndices ==
  \E direction \in ReorderDirections :
    /\ last.op = "input"
    /\ last' = [op |-> "get_reordered_indices",
                universe |-> last.universe,
                selected |-> last.selected,
                direction |-> direction,
                indices |-> get_reordered_indices(last.universe, last.selected, direction)]
    /\ steps' = steps + 1
    /\ UNCHANGED <<vk_vars, gp_vars>>

NextReorder == GetReorderedIndices

SpecReorder == InitReorder /\ [][NextReorder]_vars

\* The tuple t as an array indexed from 0.
Array0(t) == [i \in 0..(Len(t) - 1) |-> t[i + 1]]

IsPermutation(indices, n) ==
  /\ DOMAIN indices = 0..(n - 1)
  /\ \A v \in 0..(n - 1) : \E j \in 0..(n - 1) : indices[j] = v

\* The position of the index (stroke) v in the array.
PositionOf(indices, v) == CHOOSE j \in DOMAIN indices : indices[j] = v

\* The array holds the indices of `front` in ascending order, then the indices
\* of `back` in ascending order.
FrontThenBack(indices, n, front, back) ==
  LET f == Cardinality(front)
  IN /\ IsPermutation(indices, n)
     /\ \A j \in 0..(n - 1) : indices[j] \in (IF j < f THEN front ELSE back)
     /\ \A j, k \in 0..(n - 1) :
          (j < k /\ ((j < f) <=> (k < f))) => indices[j] < indices[k]

\* C7: for every universe 0..n-1 and every selection, get_reordered_indices
\* returns for TOP the unselected indices ascending followed by the selected
\* indices ascending, and for BOTTOM the selected indices ascending followed by
\* the unselected indices ascending; for the universe 0..9 with 2, 4, 5 selected
\* these are 0 1 3 6 7 8 9 2 4 5 and 2 4 5 0 1 3 6 7 8 9.
C7_ReorderTopBottom ==
  /\ (last.op = "get_reordered_indices" /\ last.direction = "TOP") =>
       FrontThenBack(last.indices, last.universe.size,
                     (0..(last.universe.size - 1)) \ last.selected, last.selected)
  /\ (last.op = "get_reordered_indices" /\ last.direction = "BOTTOM") =>
       FrontThenBack(last.indices, last.universe.size,
                     last.selected, (0..(last.universe.size - 1)) \ last.selected)
  /\ get_reordered_indices(IndexRange(0, 10), {2, 4, 5}, "TOP") =
       Array0(<<0, 1, 3, 6, 7, 8, 9, 2, 4, 5>>)
  /\ get_reordered_indices(IndexRange(0, 10), {2, 4, 5}, "BOTTOM") =
       Array0(<<2, 4, 5, 0, 1, 3, 6, 7, 8, 9>>)

\* TOP was computed for a selection with a gap, neither empty nor everything.
C7_Witness ==
  /\ last.op = "get_reordered_indices" /\ last.direction = "TOP"
  /\ last.universe.size = 5
  /\ last.selected = {1, 3}
  /\ last.indices = Array0(<<0, 2, 4, 1, 3>>)

\* C8: for DOWN every selected stroke is one position nearer to index 0, except
\* the selected strokes of the gap-free block of selected strokes that starts at
\* index 0, which stay; for UP every selected stroke is one position nearer to
\* the last index, except those of the gap-free selected block that ends at the
\* last index.  In both cases the selected strokes keep their relative order, and
\* so do the unselected strokes.
C8_ReorderUpDown ==
  (last.op = "get_reordered_indices" /\ last.direction \in {"UP", "DOWN"}) =>
    LET n == last.universe.size
        sel == last.selected
        ind == last.indices
        block == IF last.direction = "DOWN"
                   THEN {s \in sel : \A t \in 0..s : t \in sel}
                   ELSE {s \in sel : \A t \in s..(n - 1) : t \in sel}
        delta == IF last.direction = "DOWN" THEN -1 ELSE 1
    IN /\ IsPermutation(ind, n)
       /\ \A s \in sel :
            PositionOf(ind, s) = (IF s \in block THEN s ELSE s + delta)
       /\ \A s, t \in 0..(n - 1) :
            (s < t /\ ((s \in sel) <=> (t \in sel))) =>
              PositionOf(ind, s) < PositionOf(ind, t)

\* DOWN was computed for a selection with a block at index 0 and a stroke
\* further up.
C8_Witness ==
  /\ last.op = "get_reordered_indices" /\ last.direction = "DOWN"
  /\ last.universe.size = 5
  /\ last.selected = {0, 1, 3}
  /\ last.indices = Array0(<<0, 1, 3, 2, 4>>)

(***************************************************************************)
(* Delete frame operator.  A layer is a record with the flag is_editable() *)
(* reads and the set of the frame numbers at which a frame (with a         *)
(* drawing) of the layer starts; a frame lasts until the next one starts.  *)
(***************************************************************************)

\* Bound: the frame numbers are 1..MaxFrame.
MaxFrame == 3

DeleteFrameModes == {"ACTIVE_FRAME", "ALL_FRAMES"}

Layer(editable, frames) == [editable |-> editable, frames |-> frames]

NoFrame == 0

\* Layer::start_frame_at: the number of the frame of the layer that is shown at
\* frame_number (the last one that starts at or before it), NoFrame if none.
start_frame_at(layer, frame_number) ==
  IF \E k \in layer.frames : k <= frame_number
    THEN CHOOSE k \in layer.frames :
           /\ k <= frame_number
           /\ \A j \in layer.frames : j <= frame_number => j <= k
    ELSE NoFrame

\* GreasePencil::remove_frames: the layer without the frames, and whether a frame
\* was removed.
remove_frames(layer, frame_numbers) ==
  [layer |-> [layer EXCEPT !.frames = @ \ frame_numbers],
   removed |-> layer.frames \cap frame_numbers # {}]

\* The layers the loop of the mode visits to remove a frame.
delete_frame_layers(lys, active, mode) ==
  IF mode = "ACTIVE_FRAME" /\ active # 0 THEN {active}
  ELSE IF mode = "ALL_FRAMES" THEN 1..Len(lys)
  ELSE {}

\* grease_pencil_delete_frame_exec without the test of layer.is_editable().
delete_frame_ignore_editable(lys, active, current_frame, mode) ==
  LET visited == delete_frame_layers(lys, active, mode)
      hit == {l \in visited : start_frame_at(lys[l], current_frame) # NoFrame}
      r == [l \in 1..Len(lys) |->
              remove_frames(lys[l], {start_frame_at(lys[l], current_frame)})]
  IN [layers |-> [l \in 1..Len(lys) |-> IF l \in hit THEN r[l].layer ELSE lys[l]],
      changed |-> \E l \in hit : r[l].removed]

\* grease_pencil_delete_frame_exec, up to the notifications: the layers after the
\* removal and the flag `changed`.
delete_frame(lys, active, current_frame, mode) ==
  LET visited == delete_frame_layers(lys, active, mode)
      hit == {l \in visited :
                lys[l].editable /\ start_frame_at(lys[l], current_frame) # NoFrame}
      r == [l \in 1..Len(lys) |->
              remove_frames(lys[l], {start_frame_at(lys[l], current_frame)})]
  IN [layers |-> [l \in 1..Len(lys) |-> IF l \in hit THEN r[l].layer ELSE lys[l]],
      changed |-> \E l \in hit : r[l].removed]

InitFrames ==
  /\ VKIdle
  /\ drawings = <<>>
  /\ \E e1, e2 \in BOOLEAN, f1, f2 \in SUBSET (1..MaxFrame) :
       layers = <<Layer(e1, f1), Layer(e2, f2)>>
  /\ active_layer \in 0..2
  /\ cfra \in 1..MaxFrame
  /\ steps = 0
  /\ last = NoOp

\* grease_pencil_delete_frame_exec
DeleteFrameExec ==
  \E mode \in DeleteFrameModes :
    /\ steps = 0
    /\ LET r == delete_frame(layers, active_layer, cfra, mode)
       IN /\ layers' = r.layers
          /\ last' = [op |-> "delete_frame", mode |-> mode, layers |-> layers,
                      notifiers |-> IF r.changed THEN 2 ELSE 0,
                      result |-> "OPERATOR_FINISHED"]
    /\ steps' = steps + 1
    /\ UNCHANGED <<vk_vars, drawings, active_layer, cfra>>

NextFrames == DeleteFrameExec

SpecFrames == InitFrames /\ [][NextFrames]_vars

\* The layers the mode of the last delete_frame is about.
LayersOfMode ==
  IF last.mode = "ACTIVE_FRAME"
    THEN (IF active_layer = 0 THEN {} ELSE {active_layer})
    ELSE 1..Len(layers)

\* The frames of a layer that are shown at frame f: the last one starting at or
\* before f, if there is one.
ShownAt(frames, f) ==
  {k \in frames : k <= f /\ \A j \in frames : j <= f => j <= k}

\* C9 as stated: delete_frame removes the frame that starts at the current scene
\* frame, in ACTIVE_FRAME mode from the active layer and from no other layer, in
\* ALL_FRAMES mode from all layers that have such a frame; no frame at another
\* frame number is removed; the notifications are sent iff a frame was removed.
C9_Original ==
  last.op = "delete_frame" =>
    /\ \A l \in 1..Len(layers) :
         layers[l].frames =
           (IF l \in LayersOfMode THEN last.layers[l].frames \ {cfra}
            ELSE last.layers[l].frames)
    /\ (last.notifiers > 0) <=>
         (\E l \in 1..Len(layers) : layers[l].frames # last.layers[l].frames)

\* C9 (amended): delete_frame removes, from each layer of the mode (the active
\* layer in ACTIVE_FRAME mode, all layers in ALL_FRAMES mode) that is editable,
\* the frame shown at the current scene frame, that is the last frame starting at
\* or before it; layers that are not editable, layers outside the mode and all
\* other frames are unchanged; the notifications are sent iff a frame was
\* removed.
C9_DeleteFrame ==
  last.op = "delete_frame" =>
    /\ \A l \in 1..Len(layers) :
         /\ layers[l].editable = last.layers[l].editable
         /\ layers[l].frames =
              (IF l \in LayersOfMode /\ last.layers[l].editable
                 THEN last.layers[l].frames \ ShownAt(last.layers[l].frames, cfra)
                 ELSE last.layers[l].frames)
    /\ last.notifiers \in {0, 2}
    /\ (last.notifiers > 0) <=>
         (\E l \in 1..Len(layers) : layers[l].frames # last.layers[l].frames)
    /\ last.result = "OPERATOR_FINISHED"

\* ALL_FRAMES ran with a frame starting at the current frame in an editable and
\* in a non-editable layer: only the editable layer lost it.
C9_Witness ==
  /\ last.op = "delete_frame" /\ last.mode = "ALL_FRAMES"
  /\ cfra = 2
  /\ last.layers[1] = Layer(TRUE, {1, 2, 3})
  /\ last.layers[2] = Layer(FALSE, {2})
  /\ layers[1].frames = {1, 3}
  /\ layers[2].frames = {2}
  /\ last.notifiers = 2

(***************************************************************************)
(* Cyclical set operator                                                   *)
(***************************************************************************)

\* Bounds: the number of points of the drawing the operator runs on, and the
\* number of times it runs.
MaxCyclicPoints == 3
MaxOps == 2

CyclicalModes == {"CLOSE", "OPEN", "TOGGLE"}

\* index_mask::masked_fill
masked_fill(span, value, mask) ==
  [i \in 1..Len(span) |-> IF i \in mask THEN value ELSE span[i]]

\* array_utils::invert_booleans(span, mask)
invert_booleans_masked(span, mask) ==
  [i \in 1..Len(span) |-> IF i \in mask THEN ~span[i] ELSE span[i]]

\* The switch on the mode with TOGGLE inverting the whole array instead of the
\* strokes of the mask.
cyclical_set_values_toggle_all(cyclic, strokes, mode) ==
  IF mode = "CLOSE" THEN masked_fill(cyclic, TRUE, strokes)
  ELSE IF mode = "OPEN" THEN masked_fill(cyclic, FALSE, strokes)
  ELSE invert_booleans(cyclic)

\* grease_pencil_cyclical_set_exec, the switch on the mode.
cyclical_set_values(cyclic, strokes, mode) ==
  IF mode = "CLOSE" THEN masked_fill(cyclic, TRUE, strokes)
  ELSE IF mode = "OPEN" THEN masked_fill(cyclic, FALSE, strokes)
  ELSE invert_booleans_masked(cyclic, strokes)

\* The body of the parallel_for_each of grease_pencil_cyclical_set_exec for one
\* drawing.  cyclic_for_write() adds the attribute when it is missing; the
\* attribute is removed again when no curve is cyclic and the mode is not CLOSE.
cyclical_set_drawing(curves, mode) ==
  LET strokes == retrieve_editable_and_selected_strokes(curves)
      cyclic == cyclical_set_values(curves.cyclic, strokes, mode)
  IN IF mode = "OPEN" /\ ~curves.has_cyclic
       THEN [curves |-> curves, changed |-> FALSE]
     ELSE IF strokes = {}
       THEN [curves |-> curves, changed |-> FALSE]
     ELSE [curves |-> [curves EXCEPT
                         !.cyclic = cyclic,
                         !.has_cyclic = (mode = "CLOSE" \/ Contains(cyclic, TRUE))],
           changed |-> TRUE]

InitCyclic ==
  /\ VKIdle
  /\ \E c1 \in {g \in CurvesGeometries(MaxCyclicPoints, BOOLEAN, BOOLEAN) : WellFormed(g)},
        e1 \in BOOLEAN :
       drawings = <<Drawing(e1, c1)>>
  /\ FramesIdle
  /\ steps = 0
  /\ last = NoOp

\* grease_pencil_cyclical_set_exec
CyclicalSetExec ==
  \E mode \in CyclicalModes :
    /\ steps < MaxOps
    /\ LET editable == retrieve_editable_drawings(drawings)
           r == [d \in 1..Len(drawings) |-> cyclical_set_drawing(drawings[d].curves, mode)]
           changed == \E d \in editable : r[d].changed
       IN /\ drawings' = [d \in 1..Len(drawings) |->
                            IF d \in editable
                              THEN [drawings[d] EXCEPT !.curves = r[d].curves]
                              ELSE drawings[d]]
          /\ last' = [op |-> "cyclical_set", mode |-> mode, drawings |-> drawings,
                      prev |-> IF last.op = "cyclical_set"
                                 THEN [op |-> last.op, mode |-> last.mode,
                                       drawings |-> last.drawings]
                                 ELSE [op |-> "none", mode |-> "none", drawings |-> <<>>],
                      iterated |-> TRUE,
                      notifiers |-> notifiers_if_changed(changed),
                      result |-> "OPERATOR_FINISHED"]
    /\ steps' = steps + 1
    /\ UNCHANGED <<vk_vars, frame_vars>>

NextCyclic == CyclicalSetExec

SpecCyclic == InitCyclic /\ [][NextCyclic]_vars

\* A stroke is editable and selected: its layer is editable, its material is not
\* locked and one of its points is selected.
EditableSelectedStroke(drawing, c) ==
  /\ drawing.layer_editable
  /\ ~drawing.curves.locked[c]
  /\ \E p \in 1..points_num(drawing.curves) :
       /\ InRange(p, points_by_curve(drawing.curves, c))
       /\ drawing.curves.selection[p]

\* C10: cyclical_set changes the cyclic state of the editable selected strokes
\* only: after CLOSE each of them is cyclic, after OPEN none of them is, after
\* TOGGLE each has the opposite state; every other stroke has the cyclic state
\* it had, and no stroke, point or selection is added or removed.  Two TOGGLE in
\* a row give every stroke the cyclic state it had before the first.
C10_CyclicalSet ==
  last.op = "cyclical_set" =>
    /\ \A d \in 1..Len(drawings) :
         LET b == last.drawings[d]
             a == drawings[d]
         IN /\ a.curves.counts = b.curves.counts
            /\ a.curves.selection = b.curves.selection
            /\ a.curves.locked = b.curves.locked
            /\ a.curves.ids = b.curves.ids
            /\ \A c \in curves_range(b.curves) :
                 a.curves.cyclic[c] =
                   (IF ~EditableSelectedStroke(b, c) THEN b.curves.cyclic[c]
                    ELSE IF last.mode = "CLOSE" THEN TRUE
                    ELSE IF last.mode = "OPEN" THEN FALSE
                    ELSE ~b.curves.cyclic[c])
    /\ (last.mode = "TOGGLE" /\ last.prev.op = "cyclical_set" /\ last.prev.mode = "TOGGLE") =>
         \A d \in 1..Len(drawings) :
           drawings[d].curves.cyclic = last.prev.drawings[d].curves.cyclic

\* TOGGLE ran twice on a drawing with a cyclic selected stroke and a cyclic
\* stroke that is not selected.
C10_Witness ==
  /\ last.op = "cyclical_set" /\ last.mode = "TOGGLE"
  /\ last.prev.op = "cyclical_set" /\ last.prev.mode = "TOGGLE"
  /\ drawings[1].layer_editable
  /\ drawings[1].curves.counts = <<1, 1>>
  /\ drawings[1].curves.selection = <<TRUE, FALSE>>
  /\ drawings[1].curves.locked = <<FALSE, FALSE>>
  /\ last.drawings[1].curves.cyclic = <<FALSE, TRUE>>
  /\ drawings[1].curves.cyclic = <<TRUE, TRUE>>

(***************************************************************************)
(* Stroke editing operators.  In this part a drawing also records          *)
(*   radii_span    whether drawing.radii() is a span (the "radius"         *)
(*                 attribute is stored) and not a single value,            *)
(*   opacity_span  the same for drawing.opacities(),                       *)
(*   touched       the attributes and the topology written by library      *)
(*                 calls whose effect on the geometry is not modelled.     *)
(***************************************************************************)

\* Bound: the number of points of the first drawing the operators run on.
MaxOpPoints == 2

AttrDomains == {"Point", "Curve"}

CapsModes == {"ROUND", "FLAT", "START", "END"}

StrokeOperators ==
  {"smooth", "simplify", "delete", "dissolve", "cyclical_set",
   "set_uniform_thickness", "set_uniform_opacity", "switch_direction",
   "caps_set", "duplicate", "clean_loose", "subdivide", "reorder",
   "merge_by_distance", "extrude", "set_curve_type"}

\* The indices of an IndexRange, in order.
RangeSeq(r) == [k \in 1..r.size |-> r.start + k - 1]

\* bke::gather_attributes on one attribute: dst[k] = src[indices[k]].
Gather(span, indices) == [k \in 1..Len(indices) |-> span[indices[k]]]

\* The CurvesGeometry a default constructor makes.
EmptyCurves ==
  [counts |-> <<>>, ids |-> <<>>, selection |-> <<>>, cyclic |-> <<>>,
   has_cyclic |-> FALSE, locked |-> <<>>]

\* retrieve_editable_points: the points of the strokes whose material is not
\* locked.
retrieve_editable_points(curves) ==
  {p \in 1..points_num(curves) : ~curves.locked[curve_of_point(curves, p)]}

\* retrieve_editable_and_selected_elements
retrieve_editable_and_selected_elements(curves, selection_domain) ==
  IF selection_domain = "Curve"
    THEN retrieve_editable_and_selected_strokes(curves)
    ELSE retrieve_editable_and_selected_points(curves)

\* CurvesGeometry::remove_curves: the curves of the mask are removed with their
\* points.
remove_curves(curves, mask) ==
  remove_points(curves,
                {p \in 1..points_num(curves) : curve_of_point(curves, p) \in mask})

\* CurvesGeometry::reverse_curves: the points of every curve of the mask are put
\* in the opposite order.
reverse_curves(curves, mask) ==
  LET src(p) ==
        LET c == curve_of_point(curves, p)
            r == points_by_curve(curves, c)
        IN IF c \in mask THEN RangeFirst(r) + RangeLast(r) - p ELSE p
  IN [curves EXCEPT
        !.ids = [p \in 1..points_num(curves) |-> curves.ids[src(p)]],
        !.selection = [p \in 1..points_num(curves) |-> curves.selection[src(p)]]]

\* geometry::reorder_curves_geometry: the curve at the position j of the result
\* is the curve indices[j] of the source (indices count from 0).
reorder_curves_geometry(curves, indices) ==
  LET n == curves_num(curves)
      old == [j \in 1..n |-> indices[j - 1] + 1]
  IN [counts |-> Gather(curves.counts, old),
      ids |-> Concat([j \in 1..n |-> Slice(curves.ids, points_by_curve(curves, old[j]))]),
      selection |->
        Concat([j \in 1..n |-> Slice(curves.selection, points_by_curve(curves, old[j]))]),
      cyclic |-> Gather(curves.cyclic, old),
      has_cyclic |-> curves.has_cyclic,
      locked |-> Gather(curves.locked, old)]

\* The body of the loop over the curves without the join of the first range to
\* the last one: every range to keep becomes a curve of its own.
split_curve_no_join(curves, points_to_delete, curve_i) ==
  LET points == points_by_curve(curves, curve_i)
      curve_points_to_delete == Slice(points_to_delete, points)
      curve_cyclic == curves.cyclic[curve_i]
      ranges_to_keep == find_all_ranges(curve_points_to_delete, FALSE)
      n == Len(ranges_to_keep)
      is_last_segment_selected ==
        /\ curve_cyclic
        /\ RangeFirst(ranges_to_keep[1]) = 1
        /\ RangeLast(ranges_to_keep[n]) = points.size
      is_cyclic == n = 1 /\ is_last_segment_selected
      shifted(r) == RangeSeq(RangeShift(r, RangeFirst(points) - 1))
  IN IF n = 0 THEN <<>>
     ELSE [k \in 1..n |->
             [src_points |-> shifted(ranges_to_keep[k]),
              src_curve |-> curve_i,
              cyclic |-> is_cyclic]]

\* remove_points_and_split, the body of the loop over the curves: the curves the
\* destination gets from curve_i, each with the source points it is made of.
split_curve(curves, points_to_delete, curve_i) ==
  LET points == points_by_curve(curves, curve_i)
      curve_points_to_delete == Slice(points_to_delete, points)
      curve_cyclic == curves.cyclic[curve_i]
      ranges_to_keep == find_all_ranges(curve_points_to_delete, FALSE)
      n == Len(ranges_to_keep)
      is_last_segment_selected ==
        /\ curve_cyclic
        /\ RangeFirst(ranges_to_keep[1]) = 1
        /\ RangeLast(ranges_to_keep[n]) = points.size
      is_curve_self_joined == is_last_segment_selected /\ n # 1
      is_cyclic == n = 1 /\ is_last_segment_selected
      first_i == IF is_curve_self_joined THEN 2 ELSE 1
      shifted(r) == RangeSeq(RangeShift(r, RangeFirst(points) - 1))
  IN IF n = 0 THEN <<>>
     ELSE [k \in 1..(n - first_i + 1) |->
             LET range_i == first_i + k - 1
             IN [src_points |->
                   shifted(ranges_to_keep[range_i]) \o
                     (IF is_curve_self_joined /\ range_i = n
                        THEN shifted(ranges_to_keep[1]) ELSE <<>>),
                 src_curve |-> curve_i,
                 cyclic |-> is_cyclic]]

\* remove_points_and_split
remove_points_and_split(curves, mask) ==
  LET points_to_delete == [p \in 1..points_num(curves) |-> p \in mask]
      total_points == Cardinality({p \in 1..points_num(curves) : ~points_to_delete[p]})
      dst == Concat([c \in curves_range(curves) |->
                       split_curve(curves, points_to_delete, c)])
      dst_to_src_point == Concat([k \in 1..Len(dst) |-> dst[k].src_points])
  IN IF total_points = 0 THEN EmptyCurves
     ELSE [counts |-> [k \in 1..Len(dst) |-> Len(dst[k].src_points)],
           ids |-> Gather(curves.ids, dst_to_src_point),
           selection |-> Gather(curves.selection, dst_to_src_point),
           cyclic |-> [k \in 1..Len(dst) |-> dst[k].cyclic],
           has_cyclic |-> TRUE,
           locked |-> [k \in 1..Len(dst) |-> curves.locked[dst[k].src_curve]]]

\* A drawing of a layer with the state of its radius and opacity attributes.
OpDrawing(editable, curves, radii_span, opacity_span) ==
  [layer_editable |-> editable, curves |-> curves,
   radii_span |-> radii_span, opacity_span |-> opacity_span, touched |-> {}]

\* The return of the per drawing lambda before anything is written.
Untouched(info) == [drawing |-> info, changed |-> FALSE]

\* The per drawing lambda after it wrote the drawing and set changed.
Written(info) == [drawing |-> info, changed |-> TRUE]

\* grease_pencil_stroke_smooth_exec, the body of the parallel_for_each for one
\* drawing: geometry::smooth_curve_attribute writes the position always, the
\* opacity and the radius only when they are stored as a span.
smooth_drawing(info, smooth_position, smooth_radius, smooth_opacity) ==
  LET strokes == retrieve_editable_and_selected_strokes(info.curves)
      written ==
        (IF smooth_position THEN {"position"} ELSE {}) \cup
        (IF smooth_opacity /\ info.opacity_span THEN {"opacity"} ELSE {}) \cup
        (IF smooth_radius /\ info.radii_span THEN {"radius"} ELSE {})
  IN IF points_num(info.curves) = 0 THEN Untouched(info)
     ELSE IF strokes = {} THEN Untouched(info)
     ELSE [drawing |-> [info EXCEPT !.touched = @ \cup written],
           changed |-> smooth_position
                         \/ (smooth_opacity /\ info.opacity_span)
                         \/ (smooth_radius /\ info.radii_span)]

\* stroke_simplify for every stroke of the mask: the points that can be left
\* marked in points_to_delete.  ramer_douglas_peucker_simplify keeps the first
\* and the last point of the range it gets and marks points between them,
\* depending on the positions; the last point of a cyclic stroke of more than
\* two points is marked when it is within epsilon of the closing segment.
stroke_simplify_candidates(curves, strokes) ==
  {p \in 1..points_num(curves) :
     LET c == curve_of_point(curves, p)
         points == points_by_curve(curves, c)
     IN /\ c \in strokes
        /\ \/ RangeFirst(points) < p /\ p < RangeLast(points)
           \/ curves.cyclic[c] /\ points.size > 2 /\ p = RangeLast(points)}

\* grease_pencil_stroke_simplify_exec, the body of the parallel_for_each for one
\* drawing; points_to_delete is the set of points stroke_simplify left marked.
simplify_drawing(info, points_to_delete) ==
  LET strokes == retrieve_editable_and_selected_strokes(info.curves)
      total_points_to_delete == Cardinality(points_to_delete)
  IN IF points_num(info.curves) = 0 THEN Untouched(info)
     ELSE IF strokes = {} THEN Untouched(info)
     ELSE IF total_points_to_delete > 0
       THEN Written([info EXCEPT !.curves = remove_points(info.curves, points_to_delete)])
     ELSE Untouched(info)

\* grease_pencil_delete_exec, the body of the parallel_for_each for one drawing.
delete_drawing(info, selection_domain) ==
  LET elements == retrieve_editable_and_selected_elements(info.curves, selection_domain)
  IN IF elements = {} THEN Untouched(info)
     ELSE Written([info EXCEPT !.curves =
                     IF selection_domain = "Curve"
                       THEN remove_curves(info.curves, elements)
                       ELSE remove_points_and_split(info.curves, elements)])

\* grease_pencil_set_uniform_thickness_exec, for one drawing: radii_for_write()
\* stores the radius attribute.
set_uniform_thickness_drawing(info) ==
  IF retrieve_editable_and_selected_strokes(info.curves) = {} THEN Untouched(info)
  ELSE Written([info EXCEPT !.radii_span = TRUE, !.touched = @ \cup {"radius"}])

\* grease_pencil_set_uniform_opacity_exec, for one drawing.
set_uniform_opacity_drawing(info) ==
  IF retrieve_editable_and_selected_strokes(info.curves) = {} THEN Untouched(info)
  ELSE Written([info EXCEPT !.opacity_span = TRUE, !.touched = @ \cup {"opacity"}])

\* grease_pencil_stroke_switch_direction_exec, for one drawing.
switch_direction_drawing(info) ==
  LET strokes == retrieve_editable_and_selected_strokes(info.curves)
  IN IF strokes = {} THEN Untouched(info)
     ELSE Written([info EXCEPT !.curves = reverse_curves(info.curves, strokes)])

\* grease_pencil_caps_set_exec, for one drawing: the cap attributes it writes.
caps_set_drawing(info, mode) ==
  LET written == IF mode \in {"ROUND", "FLAT"} THEN {"start_cap", "end_cap"}
                 ELSE IF mode = "START" THEN {"start_cap"}
                 ELSE {"end_cap"}
  IN IF retrieve_editable_and_selected_strokes(info.curves) = {} THEN Untouched(info)
     ELSE Written([info EXCEPT !.touched = @ \cup written])

\* grease_pencil_duplicate_exec, for one drawing.
duplicate_drawing(info, selection_domain) ==
  IF retrieve_editable_and_selected_elements(info.curves, selection_domain) = {}
    THEN Untouched(info)
  ELSE Written([info EXCEPT !.touched = @ \cup {"topology"}])

\* grease_pencil_clean_loose_exec, for one drawing: the editable strokes of at
\* most limit points are removed.
clean_loose_drawing(info, limit) ==
  LET editable_strokes == retrieve_editable_strokes(info.curves)
      curves_to_delete == {i \in editable_strokes :
                             points_by_curve(info.curves, i).size <= limit}
  IN [drawing |-> [info EXCEPT !.curves = remove_curves(info.curves, curves_to_delete)]]

\* gpencil_stroke_subdivide_exec, for one drawing.
subdivide_drawing(info) ==
  IF retrieve_editable_and_selected_strokes(info.curves) = {} THEN Untouched(info)
  ELSE Written([info EXCEPT !.touched = @ \cup {"topology"}])

\* grease_pencil_stroke_reorder_exec, for one drawing.
reorder_drawing(info, direction) ==
  LET strokes == retrieve_editable_and_selected_strokes(info.curves)
      universe == IndexRange(0, curves_num(info.curves))
      indices == get_reordered_indices(universe, {c - 1 : c \in strokes}, direction)
  IN IF strokes = {} THEN Untouched(info)
     ELSE IF Cardinality(strokes) = curves_num(info.curves) THEN Untouched(info)
     ELSE Written([info EXCEPT !.curves = reorder_curves_geometry(info.curves, indices)])

\* grease_pencil_stroke_merge_by_distance_exec, for one drawing.
merge_by_distance_drawing(info, use_unselected) ==
  LET points == IF use_unselected
                  THEN retrieve_editable_points(info.curves)
                  ELSE retrieve_editable_and_selected_points(info.curves)
  IN IF points = {} THEN Untouched(info)
     ELSE Written([info EXCEPT !.touched = @ \cup {"topology"}])

\* grease_pencil_extrude_exec, for one drawing.
extrude_drawing(info) ==
  IF retrieve_editable_and_selected_points(info.curves) = {} THEN Untouched(info)
  ELSE Written([info EXCEPT !.touched = @ \cup {"topology"}])

\* grease_pencil_set_curve_type_exec, for one drawing.
set_curve_type_drawing(info) ==
  IF retrieve_editable_and_selected_strokes(info.curves) = {} THEN Untouched(info)
  ELSE Written([info EXCEPT !.touched = @ \cup {"curve_type", "topology"}])

\* The second drawing the operators run on: a cyclic selected stroke of three
\* points in an editable layer, a selected stroke in a layer that is not
\* editable, or two strokes without a selected point in an editable layer.
OpsSecondDrawings ==
  {OpDrawing(TRUE,
             [counts |-> <<3>>, ids |-> <<11, 12, 13>>,
              selection |-> <<TRUE, FALSE, TRUE>>, cyclic |-> <<TRUE>>,
              has_cyclic |-> TRUE, locked |-> <<FALSE>>],
             TRUE, FALSE),
   OpDrawing(FALSE,
             [counts |-> <<1>>, ids |-> <<11>>,
              selection |-> <<TRUE>>, cyclic |-> <<FALSE>>,
              has_cyclic |-> FALSE, locked |-> <<FALSE>>],
             FALSE, FALSE),
   OpDrawing(TRUE,
             [counts |-> <<1, 1>>, ids |-> <<11, 12>>,
              selection |-> <<FALSE, FALSE>>, cyclic |-> <<FALSE, FALSE>>,
              has_cyclic |-> FALSE, locked |-> <<FALSE, TRUE>>],
             FALSE, TRUE)}

InitOps ==
  /\ VKIdle
  /\ \E c1 \in CurvesGeometries(MaxOpPoints, BOOLEAN, {FALSE}),
        e1 \in BOOLEAN, radii_span \in BOOLEAN, opacity_span \in BOOLEAN,
        d2 \in OpsSecondDrawings :
       drawings = <<OpDrawing(e1, c1, radii_span, opacity_span), d2>>
  /\ FramesIdle
  /\ steps = 0
  /\ last = NoOp

\* The value of changed after the parallel_for_each over the editable drawings;
\* every lambda that writes it writes true.
Changed(r) == \E d \in retrieve_editable_drawings(drawings) : r[d].changed

\* The parallel_for_each over retrieve_editable_drawings and the end of an exec
\* function: r[d] is what the lambda makes of the drawing d.
Finish(op, args, r, notifiers) ==
  /\ drawings' = [d \in 1..Len(drawings) |->
                    IF d \in retrieve_editable_drawings(drawings)
                      THEN r[d].drawing ELSE drawings[d]]
  /\ last' = [op |-> op, args |-> args, drawings |-> drawings,
              iterated |-> TRUE, notifiers |-> notifiers,
              result |-> "OPERATOR_FINISHED"]
  /\ steps' = steps + 1
  /\ UNCHANGED <<vk_vars, frame_vars>>

\* grease_pencil_stroke_smooth_exec
StrokeSmoothExec ==
  \E smooth_position \in BOOLEAN, smooth_radius \in BOOLEAN, smooth_opacity \in BOOLEAN :
    /\ steps = 0
    /\ LET args == [smooth_position |-> smooth_position,
                    smooth_radius |-> smooth_radius,
                    smooth_opacity |-> smooth_opacity]
           r == [d \in 1..Len(drawings) |->
                   smooth_drawing(drawings[d], smooth_position, smooth_radius,
                                  smooth_opacity)]
       IN IF ~(smooth_position \/ smooth_radius \/ smooth_opacity)
            THEN /\ last' = [op |-> "smooth", args |-> args, drawings |-> drawings,
                             iterated |-> FALSE, notifiers |-> 0,
                             result |-> "OPERATOR_FINISHED"]
                 /\ steps' = steps + 1
                 /\ UNCHANGED <<vk_vars, gp_vars>>
            ELSE Finish("smooth", args, r, notifiers_if_changed(Changed(r)))

\* The points stroke_simplify can leave marked in the drawing d; the lambda runs
\* for the editable drawings only.
SimplifyCandidates(d) ==
  IF d \in retrieve_editable_drawings(drawings)
    THEN stroke_simplify_candidates(
           drawings[d].curves,
           retrieve_editable_and_selected_strokes(drawings[d].curves))
    ELSE {}

\* grease_pencil_stroke_simplify_exec
StrokeSimplifyExec ==
  \E points_to_delete \in
       [1..Len(drawings) -> SUBSET (UNION {SimplifyCandidates(d) : d \in 1..Len(drawings)})] :
    /\ steps = 0
    /\ \A d \in 1..Len(drawings) : points_to_delete[d] \subseteq SimplifyCandidates(d)
    /\ LET r == [d \in 1..Len(drawings) |->
                   simplify_drawing(drawings[d], points_to_delete[d])]
       IN Finish("simplify", [points_to_delete |-> points_to_delete], r,
                 notifiers_if_changed(Changed(r)))

\* grease_pencil_delete_exec
DeleteExec ==
  \E selection_domain \in AttrDomains :
    /\ steps = 0
    /\ LET r == [d \in 1..Len(drawings) |-> delete_drawing(drawings[d], selection_domain)]
       IN Finish("delete", [selection_domain |-> selection_domain], r,
                 notifiers_if_changed(Changed(r)))

\* grease_pencil_dissolve_exec on the drawings of this part.
OpsDissolveExec == DissolveExec

\* grease_pencil_cyclical_set_exec on the drawings of this part, run once.
OpsCyclicalSetExec == steps = 0 /\ CyclicalSetExec

\* grease_pencil_set_uniform_thickness_exec
SetUniformThicknessExec ==
  /\ steps = 0
  /\ LET r == [d \in 1..Len(drawings) |-> set_uniform_thickness_drawing(drawings[d])]
     IN Finish("set_uniform_thickness", [none |-> TRUE], r,
               notifiers_if_changed(Changed(r)))

\* grease_pencil_set_uniform_opacity_exec
SetUniformOpacityExec ==
  /\ steps = 0
  /\ LET r == [d \in 1..Len(drawings) |-> set_uniform_opacity_drawing(drawings[d])]
     IN Finish("set_uniform_opacity", [none |-> TRUE], r,
               notifiers_if_changed(Changed(r)))

\* grease_pencil_stroke_switch_direction_exec
StrokeSwitchDirectionExec ==
  /\ steps = 0
  /\ LET r == [d \in 1..Len(drawings) |-> switch_direction_drawing(drawings[d])]
     IN Finish("switch_direction", [none |-> TRUE], r,
               notifiers_if_changed(Changed(r)))

\* grease_pencil_caps_set_exec
CapsSetExec ==
  \E mode \in CapsModes :
    /\ steps = 0
    /\ LET r == [d \in 1..Len(drawings) |-> caps_set_drawing(drawings[d], mode)]
       IN Finish("caps_set", [mode |-> mode], r, notifiers_if_changed(Changed(r)))

\* grease_pencil_duplicate_exec
DuplicateExec ==
  \E selection_domain \in AttrDomains :
    /\ steps = 0
    /\ LET r == [d \in 1..Len(drawings) |-> duplicate_drawing(drawings[d], selection_domain)]
       IN Finish("duplicate", [selection_domain |-> selection_domain], r,
                 notifiers_if_changed(Changed(r)))

\* grease_pencil_clean_loose_exec: the notifier is sent without a test.
CleanLooseExec ==
  \E limit \in 1..MaxOpPoints :
    /\ steps = 0
    /\ LET r == [d \in 1..Len(drawings) |-> clean_loose_drawing(drawings[d], limit)]
       IN Finish("clean_loose", [limit |-> limit], r, 1)

\* gpencil_stroke_subdivide_exec
StrokeSubdivideExec ==
  /\ steps = 0
  /\ LET r == [d \in 1..Len(drawings) |-> subdivide_drawing(drawings[d])]
     IN Finish("subdivide", [none |-> TRUE], r, notifiers_if_changed(Changed(r)))

\* grease_pencil_stroke_reorder_exec
StrokeReorderExec ==
  \E direction \in ReorderDirections :
    /\ steps = 0
    /\ LET r == [d \in 1..Len(drawings) |-> reorder_drawing(drawings[d], direction)]
       IN Finish("reorder", [direction |-> direction], r,
                 notifiers_if_changed(Changed(r)))

\* grease_pencil_stroke_merge_by_distance_exec
StrokeMergeByDistanceExec ==
  \E use_unselected \in BOOLEAN :
    /\ steps = 0
    /\ LET r == [d \in 1..Len(drawings) |->
                   merge_by_distance_drawing(drawings[d], use_unselected)]
       IN Finish("merge_by_distance", [use_unselected |-> use_unselected], r,
                 notifiers_if_changed(Changed(r)))

\* grease_pencil_extrude_exec
ExtrudeExec ==
  /\ steps = 0
  /\ LET r == [d \in 1..Len(drawings) |-> extrude_drawing(drawings[d])]
     IN Finish("extrude", [none |-> TRUE], r, notifiers_if_changed(Changed(r)))

\* grease_pencil_set_curve_type_exec
SetCurveTypeExec ==
  /\ steps = 0
  /\ LET r == [d \in 1..Len(drawings) |-> set_curve_type_drawing(drawings[d])]
     IN Finish("set_curve_type", [none |-> TRUE], r, notifiers_if_changed(Changed(r)))

NextOps ==
  \/ StrokeSmoothExec
  \/ StrokeSimplifyExec
  \/ DeleteExec
  \/ OpsDissolveExec
  \/ OpsCyclicalSetExec
  \/ SetUniformThicknessExec
  \/ SetUniformOpacityExec
  \/ StrokeSwitchDirectionExec
  \/ CapsSetExec
  \/ DuplicateExec
  \/ CleanLooseExec
  \/ StrokeSubdivideExec
  \/ StrokeReorderExec
  \/ StrokeMergeByDistanceExec
  \/ ExtrudeExec
  \/ SetCurveTypeExec

SpecOps == InitOps /\ [][NextOps]_vars

\* The drawing is in an editable layer and has an editable selected stroke.
HasEditableSelected(info) ==
  \E c \in curves_range(info.curves) : EditableSelectedStroke(info, c)

\* The drawing is in an editable layer and has a stroke whose material is not
\* locked.
HasEditableStroke(info) ==
  info.layer_editable /\ \E c \in curves_range(info.curves) : ~info.curves.locked[c]

\* The drawing d has fewer points than before the operator ran.
LostPoints(d) ==
  points_num(drawings[d].curves) < points_num(last.drawings[d].curves)

\* The executions after which the stroke operator last.op has sent its
\* notification, in terms of the drawings it ran on and of its properties.
NotifiedWhen ==
  LET before == last.drawings
      D == 1..Len(before)
  IN CASE last.op = "clean_loose" -> TRUE
       [] last.op \in {"delete", "set_uniform_thickness", "set_uniform_opacity",
                       "switch_direction", "caps_set", "duplicate", "subdivide",
                       "extrude", "set_curve_type"} ->
            \E d \in D : HasEditableSelected(before[d])
       [] last.op = "merge_by_distance" ->
            \E d \in D : IF last.args.use_unselected
                           THEN HasEditableStroke(before[d])
                           ELSE HasEditableSelected(before[d])
       [] last.op = "smooth" ->
            \E d \in D :
              /\ HasEditableSelected(before[d])
              /\ \/ last.args.smooth_position
                 \/ last.args.smooth_opacity /\ before[d].opacity_span
                 \/ last.args.smooth_radius /\ before[d].radii_span
       [] last.op = "reorder" ->
            \E d \in D :
              /\ HasEditableSelected(before[d])
              /\ \E c \in curves_range(before[d].curves) :
                   ~EditableSelectedStroke(before[d], c)
       [] last.op = "cyclical_set" ->
            \E d \in D :
              /\ HasEditableSelected(before[d])
              /\ ~(last.mode = "OPEN" /\ ~before[d].curves.has_cyclic)
       [] last.op \in {"simplify", "dissolve"} ->
            \E d \in D : before[d].layer_editable /\ LostPoints(d)

\* The statement of C3 as the specification words it: every execution of a
\* stroke operator iterates the editable drawings and sends a notification
\* before it returns OPERATOR_FINISHED.
C3_Original ==
  last.op \in StrokeOperators =>
    /\ last.iterated
    /\ last.notifiers >= 1
    /\ last.result = "OPERATOR_FINISHED"

\* C3: every execution of a stroke editing operator returns OPERATOR_FINISHED
\* and sends at most one notification.  clean_loose sends it always.  The other
\* operators send it exactly when the lambda of an editable drawing set changed:
\* when an editable drawing has an editable selected stroke (merge_by_distance
\* with use_unselected: an editable stroke), and moreover, for smooth, an
\* attribute that is enabled and can be smoothed, for reorder, a stroke that is
\* not selected, for cyclical_set OPEN, the cyclic attribute, for simplify and
\* dissolve, a point that was removed.  smooth with no attribute enabled returns
\* before it iterates the drawings; every other execution iterates them.  The
\* drawings of layers that are not editable are never modified, and an execution
\* that sends no notification modifies no drawing.
C3_StrokeOperatorsNotify ==
  last.op \in StrokeOperators =>
    /\ last.result = "OPERATOR_FINISHED"
    /\ last.notifiers \in {0, 1}
    /\ (last.notifiers = 1) <=> NotifiedWhen
    /\ last.iterated <=>
         ~(/\ last.op = "smooth"
           /\ ~last.args.smooth_position
           /\ ~last.args.smooth_radius
           /\ ~last.args.smooth_opacity)
    /\ \A d \in 1..Len(drawings) :
         ~last.drawings[d].layer_editable => drawings[d] = last.drawings[d]
    /\ last.notifiers = 0 => drawings = last.drawings

\* set_uniform_thickness ran on two drawings of editable layers, the first
\* without a selected stroke and left as it was, the second with one: the
\* notification was sent.
C3_Witness ==
  /\ last.op = "set_uniform_thickness"
  /\ last.drawings[1].layer_editable
  /\ last.drawings[1].curves.counts = <<2>>
  /\ last.drawings[1].curves.selection = <<FALSE, FALSE>>
  /\ HasEditableSelected(last.drawings[2])
  /\ drawings[1] = last.drawings[1]
  /\ "radius" \in drawings[2].touched
  /\ last.notifiers = 1
  /\ last.result = "OPERATOR_FINISHED"

(***************************************************************************)
(* Move to layer operator.  The layer tree is a sequence of nodes          *)
(*   name      the name of the node: a base name and the number of the     *)
(*             suffix a unique name got (0: no suffix),                    *)
(*   is_layer  a layer (TRUE) or a layer group (FALSE),                    *)
(*   locked, visible   what is_locked() and is_visible() read,             *)
(*   frames    the frame numbers at which a frame of the layer starts,     *)
(*   drawing   per frame of the layer, its drawing: the strokes in order,  *)
(*             each with its identity and whether it is selected.          *)
(***************************************************************************)

\* Bounds: the number of strokes of the drawing of the first layer, and the
\* frame numbers 1..MaxMoveFrame.
MaxMoveStrokes == 2
MaxMoveFrame == 2

NodeName(base, suffix) == <<base, suffix>>

\* The names the operator is run with: two that nodes have, one that none has.
TargetLayerNames == {NodeName("A", 0), NodeName("B", 0), NodeName("C", 0)}

NoNode == 0

TreeNode(name, is_layer, locked, visible, frames, drawing) ==
  [name |-> name, is_layer |-> is_layer, locked |-> locked, visible |-> visible,
   frames |-> frames, drawing |-> drawing]

Stroke(id, selected) == [id |-> id, selected |-> selected]

\* Layer::is_locked
is_locked(layer) == layer.locked

\* Layer::is_editable: the layer is visible and not locked.
is_editable(layer) == layer.is_layer /\ layer.visible /\ ~layer.locked

\* Layer::has_drawing_at: a frame of the layer is shown at frame_number.
has_drawing_at(layer, frame_number) == start_frame_at(layer, frame_number) # NoFrame

RECURSIVE unique_layer_name(_, _, _)
\* unique_layer_name: the name itself when no node has it, else the base name
\* with the first numeric suffix from k on that no node has.
unique_layer_name(nodes, name, k) ==
  LET candidate == IF k = 0 THEN name ELSE NodeName(name[1], k)
  IN IF \E n \in 1..Len(nodes) : nodes[n].name = candidate
       THEN unique_layer_name(nodes, name, k + 1)
       ELSE candidate

\* GreasePencil::add_layer(name): a new layer without frames, visible and not
\* locked, is added to the tree under a unique name.
add_layer(nodes, name) ==
  Append(nodes, TreeNode(unique_layer_name(nodes, name, 0), TRUE, FALSE, TRUE, {}, <<>>))

\* GreasePencil::find_node_by_name: the node of that name, NoNode if none.
find_node_by_name(nodes, name) ==
  IF \E n \in 1..Len(nodes) : nodes[n].name = name
    THEN CHOOSE n \in 1..Len(nodes) : nodes[n].name = name
    ELSE NoNode

\* retrieve_editable_drawings(scene, grease_pencil): for every editable layer
\* with a drawing at the current frame, in the order of the layers, the layer,
\* the frame of the drawing and info.frame_number (the current frame).
retrieve_editable_drawing_infos(nodes, current_frame) ==
  LET srcs == {n \in 1..Len(nodes) :
                 is_editable(nodes[n]) /\ has_drawing_at(nodes[n], current_frame)}
  IN [k \in 1..Cardinality(srcs) |->
        LET n == to_indices(srcs)[k]
        IN [layer |-> n, frame |-> start_frame_at(nodes[n], current_frame),
            frame_number |-> current_frame]]

\* ed::curves::retrieve_selected_curves: the positions of the selected strokes.
retrieve_selected_curves(curves) == {i \in 1..Len(curves) : curves[i].selected}

\* bke::curves_copy_curve_selection: the strokes of the mask, in order.
curves_copy_curve_selection(curves, mask) == SelectIdx(curves, mask, 1)

\* CurvesGeometry::remove_curves on a drawing of strokes.  The mask is a set of
\* positions: the strokes at these positions are removed.
remove_strokes(curves, mask) == SelectIdx(curves, (1..Len(curves)) \ mask, 1)

\* geometry::join_geometries of two curves geometries: the strokes of the first
\* followed by the strokes of the second.
join_geometries(first, second) == first \o second

\* GreasePencil::insert_frame: a frame with an empty drawing starts at
\* frame_number in the layer.
insert_frame(layer, frame_number) ==
  [layer EXCEPT !.frames = @ \cup {frame_number},
                !.drawing = [k \in layer.frames \cup {frame_number} |->
                               IF k \in layer.frames THEN layer.drawing[k] ELSE <<>>]]

\* GreasePencil::get_editable_drawing_at: the frame of the drawing of the layer
\* at frame_number, NoFrame (nullptr) when the layer is not editable or has no
\* drawing there.
get_editable_drawing_at(layer, frame_number) ==
  IF is_editable(layer) THEN start_frame_at(layer, frame_number) ELSE NoFrame

\* The layer with the drawing of its frame replaced.
with_drawing(layer, frame, curves) ==
  [layer EXCEPT !.drawing = [@ EXCEPT ![frame] = curves]]

\* grease_pencil_move_to_layer_exec, the body of the loop for one source
\* drawing with selected strokes.  curves_src is a reference to the strokes of
\* the source drawing: remove_curves acts on what the drawing holds when it is
\* called.
move_to_layer_drawing(nodes, info, dst) ==
  LET curves_src == nodes[info.layer].drawing[info.frame]
      selected_strokes == retrieve_selected_curves(curves_src)
      copied == curves_copy_curve_selection(curves_src, selected_strokes)
      remove_src(ns) ==
        [ns EXCEPT ![info.layer] =
           with_drawing(ns[info.layer], info.frame,
                        remove_strokes(ns[info.layer].drawing[info.frame],
                                       selected_strokes))]
  IN IF ~has_drawing_at(nodes[dst], info.frame_number)
       THEN remove_src(
              [nodes EXCEPT ![dst] =
                 with_drawing(insert_frame(nodes[dst], info.frame_number),
                              info.frame_number, copied)])
     ELSE IF get_editable_drawing_at(nodes[dst], info.frame_number) # NoFrame
       THEN LET drawing_dst == get_editable_drawing_at(nodes[dst], info.frame_number)
                layer_curves == nodes[dst].drawing[drawing_dst]
                joined == join_geometries(copied, layer_curves)
            IN remove_src([nodes EXCEPT ![dst] = with_drawing(nodes[dst], drawing_dst, joined)])
     ELSE nodes

RECURSIVE move_to_layer_loop(_, _, _, _, _)
\* grease_pencil_move_to_layer_exec, the loop over drawings_src from the
\* position i on.
move_to_layer_loop(nodes, drawings_src, i, dst, changed) ==
  IF i > Len(drawings_src) THEN [layers |-> nodes, changed |-> changed]
  ELSE LET info == drawings_src[i]
           curves_src == nodes[info.layer].drawing[info.frame]
       IN IF retrieve_selected_curves(curves_src) = {}
            THEN move_to_layer_loop(nodes, drawings_src, i + 1, dst, changed)
            ELSE move_to_layer_loop(move_to_layer_drawing(nodes, info, dst),
                                    drawings_src, i + 1, dst, TRUE)

\* grease_pencil_move_to_layer_exec: the layer tree after the execution, the
\* value returned, the number of notifications, the layer add_layer created
\* and the layer the strokes are moved to (layer_dst).
move_to_layer(nodes, current_frame, target_layer_name, add_new_layer) ==
  LET added == IF add_new_layer THEN add_layer(nodes, target_layer_name) ELSE nodes
      created == IF add_new_layer THEN Len(added) ELSE NoNode
      target_node == find_node_by_name(added, target_layer_name)
      cancelled == [layers |-> added, result |-> "OPERATOR_CANCELLED",
                    notifiers |-> 0, created |-> created, layer_dst |-> NoNode]
  IN IF target_node = NoNode THEN cancelled
     ELSE IF ~added[target_node].is_layer THEN cancelled
     ELSE IF is_locked(added[target_node]) THEN cancelled
     ELSE LET r == move_to_layer_loop(added,
                                      retrieve_editable_drawing_infos(added, current_frame),
                                      1, target_node, FALSE)
          IN [layers |-> r.layers, result |-> "OPERATOR_FINISHED",
              notifiers |-> notifiers_if_changed(r.changed),
              created |-> created, layer_dst |-> target_node]

\* The drawings a node can have: none for a layer group; for a layer, no frame
\* or one frame with at most n strokes, numbered from first_id on.
NodeContents(is_layer, n, first_id) ==
  IF ~is_layer THEN {[frames |-> {}, drawing |-> <<>>]}
  ELSE {[frames |-> {}, drawing |-> <<>>]} \cup
       UNION {{[frames |-> {f},
                drawing |-> [k \in {f} |->
                               [i \in 1..m |-> Stroke(first_id + i - 1, sel[i])]]] :
                 sel \in [1..m -> BOOLEAN], f \in 1..MaxMoveFrame} : m \in 0..n}

\* A layer group is neither locked nor hidden here; a layer is either.
TreeNodes(name, n, first_id) ==
  {TreeNode(name, FALSE, FALSE, TRUE, {}, <<>>)} \cup
  {TreeNode(name, TRUE, locked, visible, c.frames, c.drawing) :
     locked \in BOOLEAN, visible \in BOOLEAN, c \in NodeContents(TRUE, n, first_id)}

InitMove ==
  /\ VKIdle
  /\ drawings = <<>>
  /\ \E n1 \in TreeNodes(NodeName("A", 0), MaxMoveStrokes, 1),
        n2 \in TreeNodes(NodeName("B", 0), 1, MaxMoveStrokes + 1) :
       layers = <<n1, n2>>
  /\ active_layer = 0
  /\ cfra \in 1..MaxMoveFrame
  /\ steps = 0
  /\ last = NoOp

\* grease_pencil_move_to_layer_exec
MoveToLayerExec ==
  \E target_layer_name \in TargetLayerNames, add_new_layer \in BOOLEAN :
    /\ steps = 0
    /\ LET r == move_to_layer(layers, cfra, target_layer_name, add_new_layer)
       IN /\ layers' = r.layers
          /\ last' = [op |-> "move_to_layer",
                      target_layer_name |-> target_layer_name,
                      add_new_layer |-> add_new_layer,
                      layers |-> layers,
                      created |-> r.created, layer_dst |-> r.layer_dst,
                      notifiers |-> r.notifiers, result |-> r.result]
    /\ steps' = steps + 1
    /\ UNCHANGED <<vk_vars, drawings, active_layer, cfra>>

NextMove == MoveToLayerExec

SpecMove == InitMove /\ [][NextMove]_vars

\* The identities of the strokes of a drawing.
StrokeIds(curves) == {curves[i].id : i \in 1..Len(curves)}

\* The identities of the strokes of the drawing of the layer shown at
\* frame_number, none when the layer has no drawing there.
StrokeIdsAt(layer, frame_number) ==
  IF has_drawing_at(layer, frame_number)
    THEN StrokeIds(layer.drawing[start_frame_at(layer, frame_number)])
    ELSE {}

\* The source drawing of info was emptied of the strokes that were selected in
\* it, and the drawing of the target layer at the same frame number has them.
MovedFrom(info) ==
  LET before == last.layers[info.layer].drawing[info.frame]
      after == layers[info.layer].drawing[info.frame]
  IN \A i \in retrieve_selected_curves(before) :
       /\ before[i].id \notin StrokeIds(after)
       /\ before[i].id \in StrokeIdsAt(layers[last.layer_dst], info.frame_number)

\* C11: after move_to_layer returns OPERATOR_FINISHED, every stroke that was
\* selected in an editable source drawing is no longer in that source drawing
\* and is in the drawing of the target layer at the same frame number.
C11_Original ==
  (last.op = "move_to_layer" /\ last.result = "OPERATOR_FINISHED") =>
    LET drawings_src == retrieve_editable_drawing_infos(last.layers, cfra)
    IN \A k \in 1..Len(drawings_src) : MovedFrom(drawings_src[k])

\* move_to_layer ran with a target layer that is hidden, not locked, and has a
\* drawing at the current frame: it returned OPERATOR_FINISHED and sent the
\* notification, and the selected stroke of the editable first layer is where
\* it was, not in the target layer.
C11_Witness ==
  /\ last.op = "move_to_layer" /\ last.result = "OPERATOR_FINISHED"
  /\ ~last.add_new_layer
  /\ last.layer_dst = 2
  /\ ~layers[2].visible /\ ~layers[2].locked
  /\ has_drawing_at(last.layers[2], cfra)
  /\ is_editable(last.layers[1])
  /\ 1 \in StrokeIdsAt(last.layers[1], cfra)
  /\ last.layers[1].drawing[start_frame_at(last.layers[1], cfra)][1].selected
  /\ last.notifiers = 1
  /\ layers = last.layers

\* C12: when move_to_layer is executed with add_new_layer set, the layer that
\* receives the selected strokes is the layer this execution created, also when
\* a layer or a layer group of the requested name existed: the execution
\* finishes, layer_dst is the created layer, and the strokes that were selected
\* in the editable drawings are in its drawing at the current frame.
C12_Original ==
  (last.op = "move_to_layer" /\ last.add_new_layer) =>
    /\ last.result = "OPERATOR_FINISHED"
    /\ last.layer_dst = last.created
    /\ LET drawings_src == retrieve_editable_drawing_infos(last.layers, cfra)
       IN \A k \in 1..Len(drawings_src) :
            LET info == drawings_src[k]
                before == last.layers[info.layer].drawing[info.frame]
            IN \A i \in retrieve_selected_curves(before) :
                 before[i].id \in StrokeIdsAt(layers[last.created], info.frame_number)

\* move_to_layer ran with add_new_layer and the name of the existing first
\* layer: the layer it created got another name and no drawing, and the selected
\* stroke of the second layer went into the first layer.
C12_Witness ==
  /\ last.op = "move_to_layer" /\ last.add_new_layer
  /\ last.result = "OPERATOR_FINISHED"
  /\ last.target_layer_name = last.layers[1].name
  /\ last.created = 3 /\ last.layer_dst = 1
  /\ layers[3].name = NodeName("A", 1)
  /\ layers[3].frames = {}
  /\ is_editable(last.layers[2])
  /\ MaxMoveStrokes + 1 \in StrokeIdsAt(last.layers[2], cfra)
  /\ MaxMoveStrokes + 1 \notin StrokeIdsAt(last.layers[1], cfra)
  /\ MaxMoveStrokes + 1 \in StrokeIdsAt(layers[1], cfra)
  /\ MaxMoveStrokes + 1 \notin StrokeIdsAt(layers[2], cfra)

(***************************************************************************)
(* remove_points_and_split as a function of the geometry and the mask.     *)
(***************************************************************************)

\* Bound: the number of points of the geometry remove_points_and_split gets.
MaxSplitPoints == 5

\* The geometries with at most n points, cyclic or not, nothing selected and no
\* material locked: the function reads neither the selection nor the lock.
SplitGeometries(n) ==
  {g \in CurvesGeometries(n, {FALSE}, BOOLEAN) :
     WellFormed(g) /\ ~Contains(g.selection, TRUE)}

InitSplit ==
  /\ VKIdle
  /\ \E c1 \in SplitGeometries(MaxSplitPoints) : drawings = <<Drawing(TRUE, c1)>>
  /\ FramesIdle
  /\ steps = 0
  /\ last = NoOp

\* curves = remove_points_and_split(curves, elements), with any mask of points.
RemovePointsAndSplit ==
  \E mask \in SUBSET (1..points_num(drawings[1].curves)) :
    /\ steps = 0
    /\ drawings' = [drawings EXCEPT ![1].curves = remove_points_and_split(@, mask)]
    /\ last' = [op |-> "remove_points_and_split", curves |-> drawings[1].curves,
                mask |-> mask]
    /\ steps' = steps + 1
    /\ UNCHANGED <<vk_vars, frame_vars>>

NextSplit == RemovePointsAndSplit

SpecSplit == InitSplit /\ [][NextSplit]_vars

\* The points a..b in order.
Interval(a, b) == [k \in 1..(b - a + 1) |-> a + k - 1]

\* The maximal runs of consecutive points of the curve c that are not in the
\* mask, each as the pair of its first and its last point.
MaximalRuns(curves, mask, c) ==
  LET points == points_by_curve(curves, c)
      P == RangeFirst(points)..RangeLast(points)
  IN {run \in P \X P :
        /\ run[1] <= run[2]
        /\ \A p \in run[1]..run[2] : p \notin mask
        /\ run[1] = RangeFirst(points) \/ (run[1] - 1) \in mask
        /\ run[2] = RangeLast(points) \/ (run[2] + 1) \in mask}

\* A point of the curve c is in the mask.
HasDeleted(curves, mask, c) ==
  \E p \in mask : InRange(p, points_by_curve(curves, c))

\* The curve c is cyclic, lost a point, and has a run that starts at its first
\* point and a run that ends at its last point.
RunsWrap(curves, mask, c) ==
  LET points == points_by_curve(curves, c)
  IN /\ curves.cyclic[c]
     /\ HasDeleted(curves, mask, c)
     /\ RangeFirst(points) \notin mask
     /\ RangeLast(points) \notin mask

\* The curves the statement of C13 makes of the curve c, each as the sequence
\* of its source points: the maximal runs, the run that ends at the last point
\* followed by the run that starts at the first point when the runs wrap.
ExpectedCurves(curves, mask, c) ==
  LET points == points_by_curve(curves, c)
      runs == MaximalRuns(curves, mask, c)
      wrap == RunsWrap(curves, mask, c)
      at_end(run) == run[1] = RangeFirst(points) \/ run[2] = RangeLast(points)
  IN {Interval(run[1], run[2]) : run \in {x \in runs : ~(wrap /\ at_end(x))}}
     \cup
     (IF wrap
        THEN {Interval(x[1], x[2]) \o Interval(y[1], y[2]) :
                x \in {r \in runs : r[2] = RangeLast(points)},
                y \in {r \in runs : r[1] = RangeFirst(points)}}
        ELSE {})

\* C13: remove_points_and_split returns the empty geometry when every point is
\* in the mask.  Otherwise its points are the points that are not in the mask,
\* each once; its curves are, for every source curve, the maximal runs of
\* consecutive kept points, except that in a cyclic source curve that lost a
\* point the run ending at the last point and the run starting at the first
\* point make one curve (the last run, then the first run); the curves follow
\* the order of the source; a curve is cyclic iff its source curve is cyclic
\* and lost no point.
C13_RemovePointsAndSplit ==
  last.op = "remove_points_and_split" =>
    LET src == last.curves
        mask == last.mask
        dst == drawings[1].curves
        kept == (1..points_num(src)) \ mask
        out == CurvePoints(dst)
        expected == UNION {ExpectedCurves(src, mask, c) : c \in curves_range(src)}
    IN IF kept = {} THEN dst = EmptyCurves
       ELSE /\ points_num(dst) = Cardinality(kept)
            /\ {dst.ids[p] : p \in 1..points_num(dst)} = {src.ids[p] : p \in kept}
            /\ SumSeq(dst.counts) = points_num(dst)
            /\ {out[k] : k \in curves_range(dst)} = expected
            /\ curves_num(dst) = Cardinality(expected)
            /\ \A k \in curves_range(dst) : \A j \in curves_range(dst) :
                 k < j => out[k][1] < out[j][1]
            /\ \A k \in curves_range(dst) :
                 LET c == curve_of_point(src, out[k][1])
                 IN dst.cyclic[k] <=> (src.cyclic[c] /\ ~HasDeleted(src, mask, c))

\* A cyclic curve of five points lost its third point: the result is one curve
\* made of the run of the points 4 and 5 followed by the run of the points 1
\* and 2, and it is not cyclic.
C13_Witness ==
  /\ last.op = "remove_points_and_split"
  /\ last.curves.counts = <<5>>
  /\ last.curves.cyclic = <<TRUE>>
  /\ last.mask = {3}
  /\ drawings[1].curves.counts = <<4>>
  /\ drawings[1].curves.ids = <<4, 5, 1, 2>>
  /\ drawings[1].curves.cyclic = <<FALSE>>

====
